---------------------------- MODULE Spec2Model ----------------------------
(***************************************************************************)
(* Model of src/metrics/metric.go: Metric.AddSubmetric (submetric          *)
(* derivation and duplicate detection) and ParseMetricName (the parser of  *)
(* metric name expressions "name{key:value,...}").                         *)
(*                                                                         *)
(* A Go string is a sequence of one-character strings.  Positions and      *)
(* slices keep Go's 0-based, half-open convention.                         *)
(***************************************************************************)
EXTENDS Integers, Sequences, FiniteSets, TLC

VARIABLES
    metrics,      \* heap of Metric objects: metrics[i] is the Metric with address i
    submetrics,   \* heap of Submetric objects: submetrics[j] is the Submetric with address j
    returned,     \* history: returned[i] = the Submetrics returned by the successful calls on Metric i
    call,         \* the last completed serial AddSubmetric call: receiver, argument, results
    pc,           \* concurrent callers: position of each goroutine inside AddSubmetric
    loc,          \* concurrent callers: the locals of each goroutine
    lock,         \* concurrent callers: holder of the per-parent mutex (0 = free)
    useLock,      \* concurrent callers: whether the callers wrap each call in the mutex
    expr,         \* parser: the argument of ParseMetricName
    parsed        \* parser: the results of ParseMetricName once it returned

vars == <<metrics, submetrics, returned, call, pc, loc, lock, useLock, expr, parsed>>

-----------------------------------------------------------------------------
(* Bounds of the model *)

\* longest expression enumerated exhaustively for ParseMetricName
MaxLen == 5
\* most Submetric objects ever allocated in one behaviour
MaxSubs == 2

-----------------------------------------------------------------------------
(* Go values *)

\* the nil pointer; heap addresses are 1, 2, ...
Nil == 0

\* the empty string ""
EmptyString == <<>>

\* unicode.IsSpace, restricted to the white space the inputs use
SpaceChars == {" ", "\t", "\n", "\r"}

\* the cutset of strings.Trim(..., `"'`)
QuoteChars == {"\"", "'"}

-----------------------------------------------------------------------------
(* package strings *)

\* s[lo:hi]
Slice(s, lo, hi) == SubSeq(s, lo + 1, hi)

\* strings.IndexByte: 0-based position of the first c in s, -1 if none
IndexByte(s, c) ==
    LET at == {i \in 1..Len(s) : s[i] = c}
    IN  IF at = {} THEN -1 ELSE (CHOOSE i \in at : \A j \in at : i <= j) - 1

\* strings.LastIndexByte: 0-based position of the last c in s, -1 if none
LastIndexByte(s, c) ==
    LET at == {i \in 1..Len(s) : s[i] = c}
    IN  IF at = {} THEN -1 ELSE (CHOOSE i \in at : \A j \in at : j <= i) - 1

RECURSIVE TrimLeft(_, _)
\* strings.TrimLeft: drop every leading character that is in cutset
TrimLeft(s, cutset) ==
    IF s = <<>> \/ Head(s) \notin cutset THEN s ELSE TrimLeft(Tail(s), cutset)

RECURSIVE TrimRight(_, _)
\* strings.TrimRight: drop every trailing character that is in cutset
TrimRight(s, cutset) ==
    IF s = <<>> \/ s[Len(s)] \notin cutset THEN s
    ELSE TrimRight(SubSeq(s, 1, Len(s) - 1), cutset)

\* strings.Trim(s, cutset)
Trim(s, cutset) == TrimRight(TrimLeft(s, cutset), cutset)

\* strings.TrimSpace(s)
TrimSpace(s) == Trim(s, SpaceChars)

RECURSIVE Split(_, _)
\* strings.Split(s, sep) for a one-character sep; Split("", sep) is [""]
Split(s, sep) ==
    LET i == IndexByte(s, sep)
    IN  IF i = -1 THEN <<s>>
        ELSE <<Slice(s, 0, i)>> \o Split(Slice(s, i + 1, Len(s)), sep)

\* strings.SplitN(s, sep, 2) for a one-character sep: cut at the first sep only
SplitN2(s, sep) ==
    LET i == IndexByte(s, sep)
    IN  IF i = -1 THEN <<s>>
        ELSE <<Slice(s, 0, i), Slice(s, i + 1, Len(s))>>

-----------------------------------------------------------------------------
(* errors *)

\* the nil error
NilError == [wraps |-> {}, rule |-> "nil", subject |-> <<>>]

\* fmt.Errorf("%w, metric %q ...", ErrMetricNameParsing, subject)
ParsingError(rule, subject) ==
    [wraps |-> {"ErrMetricNameParsing"}, rule |-> rule, subject |-> subject]

\* fmt.Errorf without %w: an error that wraps nothing
PlainError(rule, subject) == [wraps |-> {}, rule |-> rule, subject |-> subject]

\* errors.Is(e, target)
ErrorsIs(e, target) == target \in e.wraps

-----------------------------------------------------------------------------
(* ParseMetricName *)

RECURSIVE CheckTagsEmptyValueAccepted(_, _, _, _)
\* CheckTags with the test keyValue[1] == "" forgotten
CheckTagsEmptyValueAccepted(name, openingTokenPos, tags, i) ==
    IF i > Len(tags)
    THEN [name |-> Slice(name, 0, openingTokenPos), tags |-> tags, err |-> NilError]
    ELSE LET t == tags[i]
             keyValue == SplitN2(t, ":")
         IN  IF Len(keyValue) # 2
             THEN [name |-> EmptyString, tags |-> <<>>,
                   err |-> ParsingError("tag expression is malformed", t)]
             ELSE CheckTagsEmptyValueAccepted(name, openingTokenPos,
                            [tags EXCEPT ![i] = TrimSpace(t)], i + 1)

RECURSIVE CheckTagsUntrimmed(_, _, _, _)
\* CheckTags with the assignment tags[i] = strings.TrimSpace(t) forgotten
CheckTagsUntrimmed(name, openingTokenPos, tags, i) ==
    IF i > Len(tags)
    THEN [name |-> Slice(name, 0, openingTokenPos), tags |-> tags, err |-> NilError]
    ELSE LET t == tags[i]
             keyValue == SplitN2(t, ":")
         IN  IF Len(keyValue) # 2 \/ keyValue[2] = EmptyString
             THEN [name |-> EmptyString, tags |-> <<>>,
                   err |-> ParsingError("tag expression is malformed", t)]
             ELSE CheckTagsUntrimmed(name, openingTokenPos, tags, i + 1)

RECURSIVE CheckTags(_, _, _, _)
\* the loop over the tag definitions and the final return
CheckTags(name, openingTokenPos, tags, i) ==
    IF i > Len(tags)
    THEN [name |-> Slice(name, 0, openingTokenPos), tags |-> tags, err |-> NilError]
    ELSE LET t == tags[i]
             keyValue == SplitN2(t, ":")
         IN  IF Len(keyValue) # 2 \/ keyValue[2] = EmptyString
             THEN [name |-> EmptyString, tags |-> <<>>,
                   err |-> ParsingError("tag expression is malformed", t)]
             ELSE CheckTags(name, openingTokenPos,
                            [tags EXCEPT ![i] = TrimSpace(t)], i + 1)

\* ParseMetricName with the last-position test placed before the reversed-braces test
ParseMetricNameLastPositionFirst(name) ==
    LET openingTokenPos == IndexByte(name, "{")
        closingTokenPos == LastIndexByte(name, "}")
        containsOpeningToken == openingTokenPos # -1
        containsClosingToken == closingTokenPos # -1
    IN  IF ~containsOpeningToken /\ ~containsClosingToken
        THEN [name |-> name, tags |-> <<>>, err |-> NilError]
        ELSE IF \/ containsOpeningToken /\ ~containsClosingToken
                \/ ~containsOpeningToken /\ containsClosingToken
        THEN [name |-> EmptyString, tags |-> <<>>,
              err |-> ParsingError("unmatched opening/close curly brace", name)]
        ELSE IF closingTokenPos # Len(name) - 1
        THEN [name |-> EmptyString, tags |-> <<>>,
              err |-> ParsingError("lacks a closing curly brace in its last position", name)]
        ELSE IF closingTokenPos < openingTokenPos
        THEN [name |-> EmptyString, tags |-> <<>>,
              err |-> ParsingError("closing curly brace appears before opening one", name)]
        ELSE CheckTags(name, openingTokenPos,
                       Split(Slice(name, openingTokenPos + 1, closingTokenPos), ","), 1)

ParseMetricName(name) ==
    LET openingTokenPos == IndexByte(name, "{")
        closingTokenPos == LastIndexByte(name, "}")
        containsOpeningToken == openingTokenPos # -1
        containsClosingToken == closingTokenPos # -1
    IN  IF ~containsOpeningToken /\ ~containsClosingToken
        THEN [name |-> name, tags |-> <<>>, err |-> NilError]
        ELSE IF \/ containsOpeningToken /\ ~containsClosingToken
                \/ ~containsOpeningToken /\ containsClosingToken
        THEN [name |-> EmptyString, tags |-> <<>>,
              err |-> ParsingError("unmatched opening/close curly brace", name)]
        ELSE IF closingTokenPos < openingTokenPos
        THEN [name |-> EmptyString, tags |-> <<>>,
              err |-> ParsingError("closing curly brace appears before opening one", name)]
        ELSE IF closingTokenPos # Len(name) - 1
        THEN [name |-> EmptyString, tags |-> <<>>,
              err |-> ParsingError("lacks a closing curly brace in its last position", name)]
        ELSE CheckTags(name, openingTokenPos,
                       Split(Slice(name, openingTokenPos + 1, closingTokenPos), ","), 1)

-----------------------------------------------------------------------------
(* Inputs of the parser *)

ExprAlphabet == {"a", "b", "{", "}", ":", ",", " "}

\* every string over alphabet of length at most n
Strings(alphabet, n) == UNION {[1..k -> alphabet] : k \in 0..n}

\* "req{status:200,method:GET}"
ExprReq == <<"r", "e", "q", "{", "s", "t", "a", "t", "u", "s", ":", "2", "0", "0", ",",
             "m", "e", "t", "h", "o", "d", ":", "G", "E", "T", "}">>

ExprExamples ==
    { ExprReq,
      \* "req{status:200"   "reqstatus:200}"
      <<"r", "e", "q", "{", "s", "t", "a", "t", "u", "s", ":", "2", "0", "0">>,
      <<"r", "e", "q", "s", "t", "a", "t", "u", "s", ":", "2", "0", "0", "}">>,
      \* "req}x{"   "req{a:b}x"   "req{a}"   "req{a:}"
      <<"r", "e", "q", "}", "x", "{">>,
      <<"r", "e", "q", "{", "a", ":", "b", "}", "x">>,
      <<"r", "e", "q", "{", "a", "}">>,
      <<"r", "e", "q", "{", "a", ":", "}">>,
      \* "m {  a:b , b : a }"   "m{a:b,,b:a}"   "m{a:b:a,b:{}}"
      <<"m", " ", "{", " ", " ", "a", ":", "b", " ", ",", " ", "b", " ", ":", " ", "a", " ", "}">>,
      <<"m", "{", "a", ":", "b", ",", ",", "b", ":", "a", "}">>,
      <<"m", "{", "a", ":", "b", ":", "a", ",", "b", ":", "{", "}", "}">>,
      \* "m{:v,a: }"   "m{a:\t}"
      <<"m", "{", ":", "v", ",", "a", ":", " ", "}">>,
      <<"m", "{", "a", ":", "\t", "}">> }

ExprInputs == Strings(ExprAlphabet, MaxLen) \cup ExprExamples

NotParsed == [name |-> EmptyString, tags |-> <<>>, err |-> NilError, done |-> FALSE]

-----------------------------------------------------------------------------
(* The parser as a state machine: an expression is chosen, then parsed *)

InitParse ==
    /\ expr \in ExprInputs
    /\ parsed = NotParsed
    /\ metrics = <<>> /\ submetrics = <<>> /\ returned = <<>>
    /\ call = <<>> /\ pc = <<>> /\ loc = <<>> /\ lock = 0 /\ useLock = FALSE

Parse ==
    /\ ~parsed.done
    /\ LET r == ParseMetricName(expr)
       IN  parsed' = [name |-> r.name, tags |-> r.tags, err |-> r.err, done |-> TRUE]
    /\ UNCHANGED <<metrics, submetrics, returned, call, pc, loc, lock, useLock, expr>>

NextParse == Parse

SpecParse == InitParse /\ [][NextParse]_vars

-----------------------------------------------------------------------------
(* Metric and Submetric *)

\* the MetricType values newMetric has a Sink for
MetricTypes == {"Counter", "Gauge", "Trend", "Rate"}

\* the ValueType values; Default is the one newMetric falls back to
ValueTypes == {"Default", "Time", "Data"}

\* the Sink newMetric selects for a metric type
SinkOf(mt) ==
    CASE mt = "Counter" -> "CounterSink"
      [] mt = "Gauge"   -> "GaugeSink"
      [] mt = "Trend"   -> "TrendSink"
      [] mt = "Rate"    -> "RateSink"

\* newMetric(name, mt, vt...): vt is the sequence of the variadic arguments.  The
\* result is <<>> for the nil pointer, else <<the new Metric>>.
newMetric(name, mt, vt) ==
    LET valueType == IF Len(vt) > 0 THEN vt[1] ELSE "Default"
    IN  IF mt \notin MetricTypes THEN <<>>
        ELSE << [Name |-> name, Type |-> mt, Contains |-> valueType, Sink |-> SinkOf(mt),
                 Submetrics |-> <<>>, Sub |-> Nil] >>

-----------------------------------------------------------------------------
(* SampleTags: the tag set abstraction AddSubmetric uses *)

\* a Go map[string]string is a function from its keys; make(map...) is the empty one
EmptyMap == [k \in {} |-> EmptyString]
MapPut(m, key, value) == [k \in DOMAIN m \cup {key} |-> IF k = key THEN value ELSE m[k]]

\* IntoSampleTags(&rawTags): the tag set of a mapping, the set of its key/value pairs
IntoSampleTags(rawTags) == {<<k, rawTags[k]>> : k \in DOMAIN rawTags}

\* a.IsEqual(b): same pairs, whatever the order they were written in
IsEqual(a, b) == a = b

-----------------------------------------------------------------------------
(* Metric.AddSubmetric *)

RECURSIVE RawTagsFromFreshMap(_, _, _)
\* the loop with the map made anew in every iteration: only the last pair survives
RawTagsFromFreshMap(kvs, i, rawTags) ==
    IF i > Len(kvs) THEN rawTags
    ELSE LET kv == kvs[i]
             parts == SplitN2(kv, ":")
             key == Trim(TrimSpace(parts[1]), QuoteChars)
         IN  IF kv = EmptyString THEN RawTagsFromFreshMap(kvs, i + 1, rawTags)
             ELSE IF Len(parts) # 2
             THEN RawTagsFromFreshMap(kvs, i + 1, MapPut(EmptyMap, key, EmptyString))
             ELSE RawTagsFromFreshMap(kvs, i + 1,
                              MapPut(EmptyMap, key, Trim(TrimSpace(parts[2]), QuoteChars)))

RECURSIVE RawTagsFrom(_, _, _)
\* the loop over kvs that fills rawTags, from the i-th segment on
RawTagsFrom(kvs, i, rawTags) ==
    IF i > Len(kvs) THEN rawTags
    ELSE LET kv == kvs[i]
             parts == SplitN2(kv, ":")
             key == Trim(TrimSpace(parts[1]), QuoteChars)
         IN  IF kv = EmptyString THEN RawTagsFrom(kvs, i + 1, rawTags)
             ELSE IF Len(parts) # 2
             THEN RawTagsFrom(kvs, i + 1, MapPut(rawTags, key, EmptyString))
             ELSE RawTagsFrom(kvs, i + 1,
                              MapPut(rawTags, key, Trim(TrimSpace(parts[2]), QuoteChars)))

\* the tag set of a trimmed, non-empty criteria string
TagsOf(keyValues) == IntoSampleTags(RawTagsFrom(Split(keyValues, ","), 1, EmptyMap))

\* the duplicate scan with its last iteration missing
FirstEqualSkipsLast(subs, tags) ==
    LET hits == {i \in 1..(Len(subs) - 1) : IsEqual(submetrics[subs[i]].Tags, tags)}
    IN  IF hits = {} THEN 0 ELSE CHOOSE i \in hits : \A j \in hits : i <= j

\* the scan of the slice subs of Submetric pointers for a tag set equal to tags:
\* the position of the first hit, 0 when the loop ends without one
FirstEqual(subs, tags) ==
    LET hits == {i \in 1..Len(subs) : IsEqual(submetrics[subs[i]].Tags, tags)}
    IN  IF hits = {} THEN 0 ELSE CHOOSE i \in hits : \A j \in hits : i <= j

\* the Submetric literal with the Suffix taken from the Name
NewSubmetricSuffixIsName(m, keyValues, tags) ==
    [Name   |-> metrics[m].Name \o <<"{">> \o keyValues \o <<"}">>,
     Suffix |-> metrics[m].Name \o <<"{">> \o keyValues \o <<"}">>,
     Tags   |-> tags,
     Metric |-> Nil,
     Parent |-> m]

\* subMetric := &Submetric{...}; its Metric is not set yet
NewSubmetric(m, keyValues, tags) ==
    [Name   |-> metrics[m].Name \o <<"{">> \o keyValues \o <<"}">>,
     Suffix |-> keyValues,
     Tags   |-> tags,
     Metric |-> Nil,
     Parent |-> m]

\* the backing Metric created without the parent's value type
BackingMetricDefaultContains(m, subMetric) ==
    newMetric(subMetric.Name, metrics[m].Type, <<>>)

\* the backing Metric made as a copy of the parent struct under the new name
BackingMetricCopiesParent(m, subMetric) ==
    << [metrics[m] EXCEPT !.Name = subMetric.Name] >>

\* subMetricMetric := newMetric(subMetric.Name, m.Type, m.Contains)
BackingMetric(m, subMetric) ==
    newMetric(subMetric.Name, metrics[m].Type, <<metrics[m].Contains>>)

\* the new entry put in front of the slice
PrependSubmetric(subs, sm) == <<sm>> \o subs

\* m.Submetrics = append(m.Submetrics, subMetric)
AppendSubmetric(subs, sm) == Append(subs, sm)

\* what a call leaves behind: the two heaps, the returned pointer and error, and
\* whether the call panicked instead of returning
Outcome(ms, sms, ret, err, panicked) ==
    [metrics |-> ms, submetrics |-> sms, ret |-> ret, err |-> err, panicked |-> panicked]

\* the tail of AddSubmetric, from the Submetric literal to the return
CreateSubmetric(m, keyValues, tags) ==
    LET smAddr == Len(submetrics) + 1
        mAddr == Len(metrics) + 1
        subMetric == NewSubmetric(m, keyValues, tags)
        made == BackingMetric(m, subMetric)
    IN  IF made = <<>>
        THEN Outcome(metrics, submetrics, Nil, NilError, TRUE)
        ELSE LET subMetricMetric == [made[1] EXCEPT !.Sub = smAddr]
                 linked == [subMetric EXCEPT !.Metric = mAddr]
             IN  Outcome([Append(metrics, subMetricMetric) EXCEPT
                              ![m].Submetrics = AppendSubmetric(@, smAddr)],
                         Append(submetrics, linked), smAddr, NilError, FALSE)

\* the error of the duplicate branch
DuplicateError(m, keyValues, existing) ==
    PlainError("already exists", <<keyValues, metrics[m].Name, submetrics[existing].Name>>)

\* AddSubmetric with the Submetric appended before the scan for a duplicate
AddSubmetricAppendsFirst(m, keyValues0) ==
    LET keyValues == TrimSpace(keyValues0)
    IN  IF Len(keyValues) = 0
        THEN Outcome(metrics, submetrics, Nil,
                     PlainError("criteria cannot be empty", metrics[m].Name), FALSE)
        ELSE LET tags == TagsOf(keyValues)
                 dup == FirstEqual(metrics[m].Submetrics, tags)
             IN  IF dup # 0
                 THEN [CreateSubmetric(m, keyValues, tags) EXCEPT
                          !.ret = Nil,
                          !.err = DuplicateError(m, keyValues, metrics[m].Submetrics[dup])]
                 ELSE CreateSubmetric(m, keyValues, tags)

\* m.AddSubmetric(keyValues0), run from entry to return with nothing in between
AddSubmetricCall(m, keyValues0) ==
    LET keyValues == TrimSpace(keyValues0)
    IN  IF Len(keyValues) = 0
        THEN Outcome(metrics, submetrics, Nil,
                     PlainError("criteria cannot be empty", metrics[m].Name), FALSE)
        ELSE LET tags == TagsOf(keyValues)
                 dup == FirstEqual(metrics[m].Submetrics, tags)
             IN  IF dup # 0
                 THEN Outcome(metrics, submetrics, Nil,
                              DuplicateError(m, keyValues, metrics[m].Submetrics[dup]), FALSE)
                 ELSE CreateSubmetric(m, keyValues, tags)

-----------------------------------------------------------------------------
(* Inputs of AddSubmetric *)

\* "status:200,method:GET" and "method:GET,status:200"
ClauseStatusMethod == <<"s", "t", "a", "t", "u", "s", ":", "2", "0", "0", ",",
                        "m", "e", "t", "h", "o", "d", ":", "G", "E", "T">>
ClauseMethodStatus == <<"m", "e", "t", "h", "o", "d", ":", "G", "E", "T", ",",
                        "s", "t", "a", "t", "u", "s", ":", "2", "0", "0">>

ClauseInputs ==
    { <<>>,                                          \* ""
      <<" ", "\t">>,                                 \* " \t"
      <<"a", ":", "1">>,                             \* "a:1"
      <<" ", "a", " ", ":", " ", "1", " ">>,         \* " a : 1 "
      <<"'", "a", "'", ":", "\"", "1", "\"">>,       \* "'a':\"1\""
      <<"a">>,                                       \* "a"
      ClauseStatusMethod,
      ClauseMethodStatus }

\* the arguments the top-level metric is created with: type and variadic value type
RootKinds == { <<"Counter", <<>> >>, <<"Gauge", <<"Default">> >>,
               <<"Trend", <<"Time">> >>, <<"Rate", <<"Data">> >> }

\* the name of the top-level metric
RootName == <<"m">>

NoCall == [m |-> Nil, keyValues |-> EmptyString, ret |-> Nil, err |-> NilError,
           panicked |-> FALSE, done |-> FALSE]

-----------------------------------------------------------------------------
(* AddSubmetric calls made one at a time, on any Metric there is *)

Init ==
    /\ \E kind \in RootKinds : metrics = newMetric(RootName, kind[1], kind[2])
    /\ submetrics = <<>>
    /\ returned = <<<<>>>>
    /\ call = NoCall
    /\ pc = <<>> /\ loc = <<>> /\ lock = 0 /\ useLock = FALSE
    /\ expr = EmptyString /\ parsed = NotParsed

AddSubmetric(m, keyValues) ==
    \E r \in {AddSubmetricCall(m, keyValues)} :
        /\ Len(r.submetrics) <= MaxSubs
        /\ metrics' = r.metrics
        /\ submetrics' = r.submetrics
        /\ call' = [m |-> m, keyValues |-> keyValues, ret |-> r.ret, err |-> r.err,
                    panicked |-> r.panicked, done |-> TRUE]
        /\ returned' = IF r.ret = Nil THEN returned
                       ELSE Append([returned EXCEPT ![m] = Append(@, r.ret)], <<>>)
        /\ UNCHANGED <<pc, loc, lock, useLock, expr, parsed>>

Next == \E m \in 1..Len(metrics), keyValues \in ClauseInputs : AddSubmetric(m, keyValues)

Spec == Init /\ [][Next]_vars

-----------------------------------------------------------------------------
(* AddSubmetric called by several goroutines on the top-level Metric.  The  *)
(* function takes no lock itself; the steps are the points where another    *)
(* goroutine can run in between: entry to the scan, the scan, the creation  *)
(* of the objects with the read of m.Submetrics, and the store of the       *)
(* appended slice.  With useLock the callers hold one mutex for the Metric  *)
(* from entry to return.                                                    *)

\* number of goroutines calling AddSubmetric
NumGoroutines == 2

Goroutines == 1..NumGoroutines

\* the Metric all goroutines call AddSubmetric on
Root == 1

\* "a:1", " a : 1 ", "a", " \t"
ConcurrentClauses ==
    { <<"a", ":", "1">>, <<" ", "a", " ", ":", " ", "1", " ">>, <<"a">>, <<" ", "\t">> }

Idle == [keyValues |-> EmptyString, tags |-> {}, sm |-> Nil, snapshot |-> <<>>,
         ret |-> Nil, err |-> NilError]

InitConcurrent ==
    /\ metrics = newMetric(RootName, "Trend", <<"Time">>)
    /\ submetrics = <<>>
    /\ useLock \in BOOLEAN
    /\ lock = 0
    /\ pc = [p \in Goroutines |-> "idle"]
    /\ loc = [p \in Goroutines |-> Idle]
    /\ returned = <<>> /\ call = NoCall
    /\ expr = EmptyString /\ parsed = NotParsed

\* the caller's mu.Unlock() after the return, when the callers lock
Released(p) == IF useLock /\ lock = p THEN 0 ELSE lock

\* entry: the caller's mu.Lock() when the callers lock, then the trimming, the empty
\* test and the parsing of the tags
Enter(p, keyValues0) ==
    /\ pc[p] = "idle"
    /\ useLock => lock = 0
    /\ LET keyValues == TrimSpace(keyValues0)
       IN  IF Len(keyValues) = 0
           THEN /\ loc' = [loc EXCEPT ![p] = [Idle EXCEPT !.err =
                             PlainError("criteria cannot be empty", metrics[Root].Name)]]
                /\ UNCHANGED <<pc, lock>>
           ELSE /\ loc' = [loc EXCEPT ![p] = [Idle EXCEPT !.keyValues = keyValues,
                                                          !.tags = TagsOf(keyValues)]]
                /\ pc' = [pc EXCEPT ![p] = "scan"]
                /\ lock' = IF useLock THEN p ELSE lock
    /\ UNCHANGED <<metrics, submetrics, returned, call, useLock, expr, parsed>>

\* the loop over m.Submetrics
Scan(p) ==
    /\ pc[p] = "scan"
    /\ LET dup == FirstEqual(metrics[Root].Submetrics, loc[p].tags)
       IN  IF dup # 0
           THEN /\ loc' = [loc EXCEPT ![p] = [Idle EXCEPT !.err =
                             DuplicateError(Root, loc[p].keyValues, metrics[Root].Submetrics[dup])]]
                /\ pc' = [pc EXCEPT ![p] = "idle"]
                /\ lock' = Released(p)
           ELSE /\ pc' = [pc EXCEPT ![p] = "make"]
                /\ UNCHANGED <<loc, lock>>
    /\ UNCHANGED <<metrics, submetrics, returned, call, useLock, expr, parsed>>

\* the Submetric and its backing Metric are created and linked, and m.Submetrics is
\* read for the append
Make(p) ==
    /\ pc[p] = "make"
    /\ Len(submetrics) < MaxSubs
    /\ LET smAddr == Len(submetrics) + 1
           mAddr == Len(metrics) + 1
           subMetric == NewSubmetric(Root, loc[p].keyValues, loc[p].tags)
           made == BackingMetric(Root, subMetric)
       IN  /\ made # <<>>
           /\ metrics' = Append(metrics, [made[1] EXCEPT !.Sub = smAddr])
           /\ submetrics' = Append(submetrics, [subMetric EXCEPT !.Metric = mAddr])
           /\ loc' = [loc EXCEPT ![p].sm = smAddr, ![p].snapshot = metrics[Root].Submetrics]
    /\ pc' = [pc EXCEPT ![p] = "store"]
    /\ UNCHANGED <<returned, call, lock, useLock, expr, parsed>>

\* the appended slice is stored in m.Submetrics and the call returns
Store(p) ==
    /\ pc[p] = "store"
    /\ metrics' = [metrics EXCEPT ![Root].Submetrics = AppendSubmetric(loc[p].snapshot, loc[p].sm)]
    /\ loc' = [loc EXCEPT ![p] = [Idle EXCEPT !.ret = loc[p].sm]]
    /\ pc' = [pc EXCEPT ![p] = "idle"]
    /\ lock' = Released(p)
    /\ UNCHANGED <<submetrics, returned, call, useLock, expr, parsed>>

NextConcurrent ==
    \E p \in Goroutines :
        \/ \E keyValues \in ConcurrentClauses : Enter(p, keyValues)
        \/ Scan(p)
        \/ Make(p)
        \/ Store(p)

SpecConcurrent == InitConcurrent /\ [][NextConcurrent]_vars

-----------------------------------------------------------------------------
(* Vocabulary of the parser's properties, stated on the text of the        *)
(* expression by positions, not through the operators the parser uses      *)

\* 1-based positions of character c in s
Positions(s, c) == {i \in 1..Len(s) : s[i] = c}

MinOf(S) == CHOOSE i \in S : \A j \in S : i <= j
MaxOf(S) == CHOOSE i \in S : \A j \in S : j <= i

HasOpen(s) == Positions(s, "{") # {}
HasClose(s) == Positions(s, "}") # {}

\* exactly one of '{' and '}' occurs
Unmatched(s) == HasOpen(s) # HasClose(s)
\* both occur and the last '}' is before the first '{'
Reversed(s) == HasOpen(s) /\ HasClose(s) /\ MaxOf(Positions(s, "}")) < MinOf(Positions(s, "{"))
\* both occur and the last '}' is not the final character
Trailing(s) == HasOpen(s) /\ HasClose(s) /\ MaxOf(Positions(s, "}")) # Len(s)
\* first '{' before last '}', last '}' in final position
WellPlaced(s) == HasOpen(s) /\ HasClose(s) /\ ~Reversed(s) /\ ~Trailing(s)

\* the text strictly between the first '{' and the final '}' of a well placed s
Body(s) == SubSeq(s, MinOf(Positions(s, "{")) + 1, Len(s) - 1)

\* number of comma-separated pieces of b, and the k-th of them
NumPieces(b) == Cardinality(Positions(b, ",")) + 1
NthComma(b, k) ==
    CHOOSE i \in Positions(b, ",") : Cardinality({j \in Positions(b, ",") : j <= i}) = k
PieceOf(b, k) ==
    SubSeq(b, IF k = 1 THEN 1 ELSE NthComma(b, k - 1) + 1,
              IF k = NumPieces(b) THEN Len(b) ELSE NthComma(b, k) - 1)

HasColon(p) == Positions(p, ":") # {}
KeyOf(p) == SubSeq(p, 1, MinOf(Positions(p, ":")) - 1)
ValueOf(p) == SubSeq(p, MinOf(Positions(p, ":")) + 1, Len(p))
\* the piece is all white space, or empty
Blank(p) == \A i \in 1..Len(p) : p[i] \in SpaceChars

Failed(r) == r.err # NilError
\* what every failing ParseMetricName call returns
NameParsingFailure(r) ==
    /\ r.name = EmptyString
    /\ r.tags = <<>>
    /\ ErrorsIs(r.err, "ErrMetricNameParsing")

-----------------------------------------------------------------------------
(* Properties of ParseMetricName, checked under SpecParse *)

\* the comma-separated pieces of a well placed expression, by position
PiecesOf(s) == [k \in 1..NumPieces(Body(s)) |-> PieceOf(Body(s), k)]

\* the piece has a ':' and something, possibly white space, after its first ':'
Accepted(p) == HasColon(p) /\ ValueOf(p) # EmptyString
\* the piece has a non-empty key and a value that is non-empty after trimming
StrictlyFormed(p) == HasColon(p) /\ KeyOf(p) # EmptyString /\ ~Blank(ValueOf(p))

\* C8 (as stated): for a well placed expression ParseMetricName succeeds only when
\* every piece has a non-empty key and a value that is non-empty after trimming, and
\* fails with the name-parsing error otherwise.
C8_AsStated ==
    (parsed.done /\ WellPlaced(expr)) =>
        /\ ~Failed(parsed) <=> \A k \in 1..NumPieces(Body(expr)) : StrictlyFormed(PiecesOf(expr)[k])
        /\ Failed(parsed) => NameParsingFailure(parsed)

\* C8 (amended): for a well placed expression ParseMetricName fails, with the
\* name-parsing error naming the first offending piece verbatim, exactly when some
\* piece has no ':' or has nothing at all after its first ':'; a piece with an empty
\* key (":v") or with a white-space-only value ("a: ") is accepted.
C8_MalformedClause ==
    (parsed.done /\ WellPlaced(expr)) =>
        LET ps == PiecesOf(expr)
            bad == {k \in 1..Len(ps) : ~Accepted(ps[k])}
        IN  /\ Failed(parsed) <=> bad # {}
            /\ Failed(parsed) =>
                  /\ NameParsingFailure(parsed)
                  /\ parsed.err.rule = "tag expression is malformed"
                  /\ parsed.err.subject = ps[MinOf(bad)]

\* C8 witness: a well placed expression was accepted although one piece has an empty
\* key and another a value of white space only.
C8_Witness ==
    /\ parsed.done /\ WellPlaced(expr) /\ ~Failed(parsed)
    /\ \E k \in 1..NumPieces(Body(expr)) :
          HasColon(PiecesOf(expr)[k]) /\ KeyOf(PiecesOf(expr)[k]) = EmptyString
    /\ \E k \in 1..NumPieces(Body(expr)) :
          HasColon(PiecesOf(expr)[k]) /\ ValueOf(PiecesOf(expr)[k]) # EmptyString
                                      /\ Blank(ValueOf(PiecesOf(expr)[k]))

\* C9: ParseMetricName fails when exactly one of '{' and '}' occurs, else when the last
\* '}' is before the first '{', else when the last '}' is not the final character, the
\* first of these that applies deciding the error; and every failing call returns the
\* empty name, no tag clauses and an error that wraps ErrMetricNameParsing.
C9_BraceFailures ==
    parsed.done =>
        /\ Unmatched(expr) =>
              Failed(parsed) /\ parsed.err.rule = "unmatched opening/close curly brace"
        /\ Reversed(expr) =>
              Failed(parsed) /\ parsed.err.rule = "closing curly brace appears before opening one"
        /\ (Trailing(expr) /\ ~Reversed(expr)) =>
              Failed(parsed) /\ parsed.err.rule = "lacks a closing curly brace in its last position"
        /\ Failed(parsed) => NameParsingFailure(parsed)

\* C9 witness: an expression whose braces are both reversed and not in last position
\* was rejected as reversed.
C9_Witness ==
    /\ parsed.done /\ Reversed(expr) /\ Trailing(expr)
    /\ Failed(parsed) /\ NameParsingFailure(parsed)

\* C10: ParseMetricName returns a string without braces unchanged, with no clauses; and
\* when it succeeds on name{k1:v1,...,kn:vn} it returns the untrimmed text before the
\* first '{' and the n comma-separated pieces, in order, each trimmed of surrounding
\* white space.
C10_SuccessResult ==
    parsed.done =>
        /\ (~HasOpen(expr) /\ ~HasClose(expr)) =>
              ~Failed(parsed) /\ parsed.name = expr /\ parsed.tags = <<>>
        /\ (~Failed(parsed) /\ HasOpen(expr)) =>
              /\ WellPlaced(expr)
              /\ parsed.name = SubSeq(expr, 1, MinOf(Positions(expr, "{")) - 1)
              /\ Len(parsed.tags) = NumPieces(Body(expr))
              /\ \A k \in 1..Len(parsed.tags) : parsed.tags[k] = TrimSpace(PiecesOf(expr)[k])
        /\ expr = ExprReq =>
              /\ ~Failed(parsed)
              /\ parsed.name = <<"r", "e", "q">>
              /\ parsed.tags = << <<"s", "t", "a", "t", "u", "s", ":", "2", "0", "0">>,
                                  <<"m", "e", "t", "h", "o", "d", ":", "G", "E", "T">> >>

\* C10 witness: a successful parse of two different clauses, one of them written with
\* surrounding white space, under a name that ends in white space.
C10_Witness ==
    /\ parsed.done /\ ~Failed(parsed)
    /\ Len(parsed.tags) = 2 /\ parsed.tags[1] # parsed.tags[2]
    /\ parsed.tags[2] # PiecesOf(expr)[2]
    /\ parsed.name # TrimSpace(parsed.name)

-----------------------------------------------------------------------------
(* Properties of serialized AddSubmetric calls, checked under Spec *)

\* the Submetrics slice of the Metric at address m
Subs(m) == metrics[m].Submetrics

\* the last call returned an error / returned a Submetric
CallFailed == call.done /\ call.err # NilError
CallSucceeded == call.done /\ call.err = NilError /\ ~call.panicked

\* s without its leading and trailing white space, by position
Stripped(s) ==
    LET inked == {i \in 1..Len(s) : s[i] \notin SpaceChars}
    IN  IF inked = {} THEN EmptyString ELSE SubSeq(s, MinOf(inked), MaxOf(inked))

\* C1: no two entries of a Metric's Submetrics have equal tag sets; and when
\* "method:GET,status:200" is added to a parent that holds the Submetric of
\* "status:200,method:GET", the call fails as a duplicate.
C1_NoEqualTagSets ==
    /\ \A m \in 1..Len(metrics) : \A i, j \in 1..Len(Subs(m)) :
          i # j => ~IsEqual(submetrics[Subs(m)[i]].Tags, submetrics[Subs(m)[j]].Tags)
    /\ ( /\ call.done /\ call.keyValues = ClauseMethodStatus
         /\ \E i \in 1..Len(Subs(call.m)) :
               submetrics[Subs(call.m)[i]].Suffix = ClauseStatusMethod )
       => (call.ret = Nil /\ call.err.rule = "already exists")

\* C1 witness: "method:GET,status:200" was refused on a parent holding the Submetric
\* of "status:200,method:GET".
C1_Witness ==
    /\ call.done /\ call.keyValues = ClauseMethodStatus
    /\ call.err.rule = "already exists"
    /\ \E i \in 1..Len(Subs(call.m)) : submetrics[Subs(call.m)[i]].Suffix = ClauseStatusMethod

\* C2: a call whose argument is empty or white space only returns an error, and a
\* call that returns an error returns no Submetric and leaves both the receiver's
\* Submetrics and every object reachable from it as they were.
C2_FailureChangesNothing ==
    [][ /\ (call'.done /\ Blank(call'.keyValues)) => call'.err # NilError
        /\ (call'.done /\ call'.err # NilError) =>
              /\ call'.ret = Nil
              /\ metrics' = metrics
              /\ submetrics' = submetrics ]_vars

\* C2 witness: a white-space-only clause was refused by a Metric that has a Submetric.
C2_Witness ==
    /\ CallFailed /\ call.keyValues # EmptyString /\ Blank(call.keyValues)
    /\ call.err.rule = "criteria cannot be empty"
    /\ Len(Subs(call.m)) >= 1

\* C3: the Submetrics of every Metric are exactly the Submetrics its successful calls
\* returned, in call order: each success appends its result at the end and nothing
\* else touches the slice.
C3_AppendedInCallOrder ==
    /\ Len(returned) = Len(metrics)
    /\ \A m \in 1..Len(metrics) : Subs(m) = returned[m]
    /\ CallSucceeded => Subs(call.m)[Len(Subs(call.m))] = call.ret

\* C3 witness: a Metric on which two calls succeeded.
C3_Witness ==
    \E m \in 1..Len(metrics) :
        Len(returned[m]) = 2 /\ returned[m][1] # returned[m][2] /\ Subs(m) = returned[m]

\* the links and copies AddSubmetric sets up for the Submetric at address a
WellLinked(m, a) ==
    LET sm == submetrics[a]
    IN  /\ sm.Parent = m
        /\ sm.Metric \in 1..Len(metrics) /\ sm.Metric # m
        /\ metrics[sm.Metric].Sub = a
        /\ metrics[sm.Metric].Name = sm.Name
        /\ metrics[sm.Metric].Type = metrics[m].Type
        /\ metrics[sm.Metric].Contains = metrics[m].Contains

\* a step leaves every existing Submetric, and the fields of every existing Metric
\* other than its Submetrics, as they are
Frozen ==
    /\ \A a \in 1..Len(submetrics) : submetrics'[a] = submetrics[a]
    /\ \A x \in 1..Len(metrics) :
          [metrics'[x] EXCEPT !.Submetrics = <<>>] = [metrics[x] EXCEPT !.Submetrics = <<>>]

\* C4: every Submetric in a Metric's Submetrics has that Metric as Parent and a
\* backing Metric, distinct from the parent, whose Sub is the Submetric, whose Name
\* is the Submetric's and whose Type and Contains are the parent's; and no call
\* changes these fields of an existing Submetric or Metric.
C4_LinksAndCopies ==
    /\ [](\A m \in 1..Len(metrics) : \A i \in 1..Len(Subs(m)) : WellLinked(m, Subs(m)[i]))
    /\ [][Frozen]_vars

\* C4 witness: a parent that is neither a Counter nor of the Default value type, with
\* two Submetrics.
C4_Witness ==
    \E m \in 1..Len(metrics) :
        /\ Len(Subs(m)) = 2
        /\ metrics[m].Type # "Counter" /\ metrics[m].Contains # "Default"
        /\ WellLinked(m, Subs(m)[1]) /\ WellLinked(m, Subs(m)[2])

\* C5 (as stated): the Suffix of the Submetric a successful call returns is the
\* argument exactly as supplied, and its Name is the parent's Name, "{", that same
\* text, "}".
C5_AsStated ==
    CallSucceeded =>
        /\ submetrics[call.ret].Suffix = call.keyValues
        /\ submetrics[call.ret].Name =
              metrics[call.m].Name \o <<"{">> \o call.keyValues \o <<"}">>

\* C5 (amended): the Suffix of the Submetric a successful call returns is the argument
\* with its leading and trailing white space removed, and its Name is the parent's
\* Name, "{", that trimmed text, "}"; an argument without surrounding white space is
\* kept as supplied.
C5_TrimmedSuffix ==
    CallSucceeded =>
        /\ submetrics[call.ret].Suffix = Stripped(call.keyValues)
        /\ submetrics[call.ret].Name =
              metrics[call.m].Name \o <<"{">> \o Stripped(call.keyValues) \o <<"}">>

\* C5 witness: a call with an argument written with surrounding white space succeeded.
C5_Witness ==
    /\ CallSucceeded /\ call.ret # Nil
    /\ call.keyValues[1] \in SpaceChars /\ call.keyValues[Len(call.keyValues)] \in SpaceChars

\* C6 (as stated): a Metric whose Sub is not nil has no Submetrics.
C6_AsStated ==
    \A x \in 1..Len(metrics) : metrics[x].Sub # Nil => Subs(x) = <<>>

\* C6 (amended): a Metric whose Sub is not nil has no Submetrics unless a call of
\* AddSubmetric with that Metric as the receiver succeeded (nothing in AddSubmetric
\* refuses such a call); creating and appending a Submetric gives its backing Metric
\* none.
C6_OneLevelUnlessCalledOn ==
    \A x \in 1..Len(metrics) :
        (metrics[x].Sub # Nil /\ returned[x] = <<>>) => Subs(x) = <<>>

\* C6 witness: two backing Metrics, the second created while its parent had a
\* Submetric already, both without Submetrics.
C6_Witness ==
    \E x, y \in 1..Len(metrics) :
        /\ x # y /\ metrics[x].Sub # Nil /\ metrics[y].Sub # Nil
        /\ submetrics[metrics[x].Sub].Parent = submetrics[metrics[y].Sub].Parent
        /\ Subs(x) = <<>> /\ Subs(y) = <<>>

-----------------------------------------------------------------------------
(* Properties of concurrent AddSubmetric calls, checked under SpecConcurrent *)

\* two entries of the top-level Metric's Submetrics have equal tag sets
RootHoldsEqualTagSets ==
    \E i, j \in 1..Len(metrics[Root].Submetrics) :
        /\ i # j
        /\ IsEqual(submetrics[metrics[Root].Submetrics[i]].Tags,
                   submetrics[metrics[Root].Submetrics[j]].Tags)

\* C7: when every call on the parent runs as a critical section, the parent never
\* holds two Submetrics with equal tag sets; without the mutex the scan and the
\* append of two calls interleave, and the state C7_Witness describes is reached.
C7_CriticalSectionNoDuplicates == useLock => ~RootHoldsEqualTagSets

\* C7 witness: without the mutex, two calls with clauses of equal tag sets both passed
\* the scan and both appended: all goroutines have returned and the parent holds two
\* Submetrics with equal tag sets.
C7_Witness ==
    /\ ~useLock
    /\ \A p \in Goroutines : pc[p] = "idle"
    /\ RootHoldsEqualTagSets

=============================================================================
